---- MODULE Spec2Model ----
(***************************************************************************)
(* Model of the bridgescrap change-detection pipeline:                     *)
(*   - storage.py   AssignmentStorage (JSON snapshot, history, compare)    *)
(*   - validation.py sanitize_assignment / extract_date_time               *)
(*   - main.py      main(), legacy report writer/parser/compare            *)
(*                                                                         *)
(* Strings are sequences of one-character strings, so that str.lower(),    *)
(* str.split(), str.strip() are computed rather than assumed.  A Python    *)
(* dict is a function from its keys to its values.                         *)
(***************************************************************************)
EXTENDS Integers, Sequences, FiniteSets, TLC

VARIABLES
    file,       \* content of data/assignments.json
    now,        \* wall clock, in days
    pc,         \* position of the caller of the storage API
    ret,        \* what the last storage call was given and returned
    saved,      \* <<x>> while the file is the one save_assignments(x) wrote
    san,        \* sanitize_assignment: its argument and its results
    previous_txt,     \* Previous_assignments.txt: <<>> or <<content>>
    assignments_txt,  \* assignments.txt: <<>> or <<content>>
    run,              \* what the last run of main() did
    val               \* validate_assignment: its argument and its outcome

storageVars == <<file, now, pc, ret, saved>>
sanitizeVars == <<san>>
mainVars == <<previous_txt, assignments_txt, run>>
validateVars == <<val>>

vars == <<file, now, pc, ret, saved, san, previous_txt, assignments_txt, run, val>>

----------------------------------------------------------------------------
(* Bounds of the model                                                     *)

MaxRecs == 2        \* longest record list passed to the storage API
MaxHist == 0        \* longest history a save of Spec may leave behind
MaxText == 5        \* longest info text, in units, given to sanitize_assignment
MaxEntries == 2     \* longest history a save of SpecHistory may leave behind
MaxNow == 10        \* last day of the wall clock
MaxFieldRecs == 1   \* longest record list stored in SpecFields

----------------------------------------------------------------------------
(* Python str operations                                                   *)

\* str.lower() on the characters of the model's alphabet.  Besides single
\* characters the alphabet has units that stand for a fixed run of
\* characters: "D" a date such as 2/6/2025, "Dc" the same date zero-padded
\* (02/06/2025), "I" an ISO date (2025-02-06), "T" a time (10:15), "AM"/"am"
\* the meridiem, and the words "None"/"none", "Video"/"video",
\* "interpretation", and the field names and labels of the legacy report
\* ("Customer", "Date_Time", "Location", ...).
LowerChar(c) ==
    CASE c = "A" -> "a"
      [] c = "B" -> "b"
      [] c = "N" -> "n"
      [] c = "AM" -> "am"
      [] c = "None" -> "none"
      [] c = "Video" -> "video"
      [] c = "Test" -> "test"
      [] c = "S" -> "s"
      [] c = "F" -> "f"
      [] c = "P" -> "p"
      [] c = "M" -> "m"
      [] c = "C" -> "c"
      [] c = "V" -> "v"
      [] c = "R" -> "r"
      [] c = "K" -> "k"
      [] c = "J" -> "j"
      [] c = "Address" -> "address"
      [] c = "Client_Name_And_Phone" -> "client_name_and_phone"
      [] c = "Comments" -> "comments"
      [] c = "Contact_Person'S_Email_Address" -> "contact_person's_email_address"
      [] c = "Contact_Person_Name_And_Phone" -> "contact_person_name_and_phone"
      [] c = "Customer" -> "customer"
      [] c = "Date_Time" -> "date_time"
      [] c = "Language" -> "language"
      [] c = "Location" -> "location"
      [] c = "Service_Type" -> "service_type"
      [] OTHER -> c

lower(s) == [i \in 1..Len(s) |-> LowerChar(s[i])]

\* str.isspace() of one character
IsSpace(c) == c \in {" ", "\n"}

\* str.split(): the maximal runs of non-whitespace characters
RECURSIVE SplitWs(_, _, _)
SplitWs(s, cur, acc) ==
    IF s = <<>> THEN (IF cur = <<>> THEN acc ELSE Append(acc, cur))
    ELSE IF IsSpace(Head(s))
         THEN SplitWs(Tail(s), <<>>, IF cur = <<>> THEN acc ELSE Append(acc, cur))
         ELSE SplitWs(Tail(s), Append(cur, Head(s)), acc)

split(s) == SplitWs(s, <<>>, <<>>)

\* ' '.join(words)
RECURSIVE join(_)
join(words) ==
    IF words = <<>> THEN <<>>
    ELSE IF Len(words) = 1 THEN words[1]
    ELSE words[1] \o <<" ">> \o join(Tail(words))

\* str.strip()
RECURSIVE lstrip(_)
lstrip(s) == IF s # <<>> /\ IsSpace(Head(s)) THEN lstrip(Tail(s)) ELSE s

RECURSIVE rstrip(_)
rstrip(s) ==
    IF s # <<>> /\ IsSpace(s[Len(s)]) THEN rstrip(SubSeq(s, 1, Len(s) - 1)) ELSE s

strip(s) == rstrip(lstrip(s))

\* the literal 'N/A'
NA == <<"N", "/", "A">>

\* dict.get(key, default)
Get(d, k, default) == IF k \in DOMAIN d THEN d[k] ELSE default

\* d[k] = v
Put(d, k, v) == [x \in (DOMAIN d) \cup {k} |-> IF x = k THEN v ELSE d[x]]

----------------------------------------------------------------------------
(* storage.py: helpers nested in AssignmentStorage.compare_assignments     *)

case_sensitive_fields == {"info", "comments"}

\* clean_assignment that skips no field
ignore_fields_none == {}

ignore_fields == {"timestamp", "last_updated", "created_at", "updated_at"}

\* str.lower() of a dict key (keys are TLA+ strings; the model's keys that
\* are not already lower case are listed here)
LowerKey(k) ==
    CASE k = "Timestamp" -> "timestamp"
      [] k = "Updated_At" -> "updated_at"
      [] OTHER -> k

\* normalize_value without the lower() of line 152
normalize_value_cased(value, preserve_case) == join(split(value))

\* normalize_value that only strips a case-preserved value
normalize_value_strip(value, preserve_case) ==
    IF preserve_case THEN strip(value) ELSE lower(join(split(value)))

normalize_value(value, preserve_case) ==
    LET v == join(split(value))
    IN  IF preserve_case THEN v ELSE lower(v)

get_assignment_key(assignment) ==
    << normalize_value(Get(assignment, "customer", <<>>), FALSE),
       normalize_value(Get(assignment, "date_time", <<>>), FALSE),
       normalize_value(Get(assignment, "language", <<>>), FALSE),
       normalize_value(Get(assignment, "service_type", <<>>), FALSE),
       normalize_value(Get(assignment, "info", <<>>), TRUE),
       normalize_value(Get(assignment, "comments", <<>>), TRUE) >>

clean_assignment(assignment) ==
    LET keys == {LowerKey(k) : k \in DOMAIN assignment} \ ignore_fields
    IN  [key \in keys |->
            LET k0    == CHOOSE k \in DOMAIN assignment : LowerKey(k) = key
                value == assignment[k0]
            IN  IF strip(value) = <<>> THEN NA
                ELSE normalize_value(value, key \in case_sensitive_fields)]

assignments_equal(a1, a2) ==
    \A key \in (DOMAIN a1) \cup (DOMAIN a2) :
        normalize_value(Get(a1, key, NA), key \in case_sensitive_fields)
          = normalize_value(Get(a2, key, NA), key \in case_sensitive_fields)

----------------------------------------------------------------------------
(* storage.py: AssignmentStorage.compare_assignments                       *)

\* Every lower-case key of the model, in sorted() order
SortedFields ==
    << "comments", "customer", "date_time", "info", "language", "location",
       "service_type", "timestamp", "updated_at" >>

\* One entry of the returned `changes` list.  kind "added", "removed" and
\* "header" stand for the three f-strings that name key[0], key[2], key[1];
\* kind "field" stands for "  - {field}: '{old}' -> '{new}'".
\* the f-strings with key[2] and key[0] exchanged
KeyLine_swapped(kind, key) ==
    [kind |-> kind, customer |-> key[3], language |-> key[1], date_time |-> key[2],
     field |-> "", old |-> <<>>, new |-> <<>>]

KeyLine(kind, key) ==
    [kind |-> kind, customer |-> key[1], language |-> key[3], date_time |-> key[2],
     field |-> "", old |-> <<>>, new |-> <<>>]

FieldLine(field, old, new) ==
    [kind |-> "field", customer |-> <<>>, language |-> <<>>, date_time |-> <<>>,
     field |-> field, old |-> old, new |-> new]

\* [get_assignment_key(a) for a in cleaned]: the keys under which the dict
\* comprehensions of lines 212-215 enter the records, in list order
KeySeq(assignments) ==
    [i \in 1..Len(assignments) |-> get_assignment_key(clean_assignment(assignments[i]))]

Range(f) == {f[i] : i \in DOMAIN f}

\* the dict comprehension keeping the cleaned record where the original belongs
OrigOf_cleaned(assignments, keys, key) ==
    LET idx  == {i \in DOMAIN keys : keys[i] = key}
        last == CHOOSE i \in idx : \A j \in idx : j <= i
    IN  clean_assignment(assignments[last])

\* the original a dict comprehension keeps under `key`: a later entry
\* replaces an earlier one
OrigOf(assignments, keys, key) ==
    LET idx  == {i \in DOMAIN keys : keys[i] = key}
        last == CHOOSE i \in idx : \A j \in idx : j <= i
    IN  assignments[last]

\* lines 218-220, on the key sets of the stored and of the new records
added_keys(current_keys, new_keys) == new_keys \ current_keys

\* removed_keys without the set difference
removed_keys_all(current_keys, new_keys) == current_keys

removed_keys(current_keys, new_keys) == current_keys \ new_keys

common_keys(current_keys, new_keys) == current_keys \cap new_keys

\* the orders in which Python may iterate a set
Orders(S) ==
    LET n == Cardinality(S)
    IN  {o \in [1..n -> S] : \A i, j \in 1..n : o[i] = o[j] => i = j}

\* field_changes displaying the cleaned values
RECURSIVE FieldChanges_cleaned(_, _, _, _, _)
FieldChanges_cleaned(fields, current_cleaned, new_cleaned, current_orig, new_orig) ==
    IF fields = <<>> THEN <<>>
    ELSE LET field == Head(fields)
             rest  == FieldChanges_cleaned(Tail(fields), current_cleaned,
                                           new_cleaned, current_orig, new_orig)
             keep  == field \in case_sensitive_fields
         IN  IF /\ field \in (DOMAIN current_cleaned) \cup (DOMAIN new_cleaned)
                /\ normalize_value(Get(current_cleaned, field, NA), keep)
                     # normalize_value(Get(new_cleaned, field, NA), keep)
             THEN <<FieldLine(field, Get(current_cleaned, field, NA),
                              Get(new_cleaned, field, NA))>> \o rest
             ELSE rest

\* field_changes of one common key (lines 241-255)
RECURSIVE FieldChanges(_, _, _, _, _)
FieldChanges(fields, current_cleaned, new_cleaned, current_orig, new_orig) ==
    IF fields = <<>> THEN <<>>
    ELSE LET field == Head(fields)
             rest  == FieldChanges(Tail(fields), current_cleaned, new_cleaned,
                                   current_orig, new_orig)
             keep  == field \in case_sensitive_fields
         IN  IF /\ field \in (DOMAIN current_cleaned) \cup (DOMAIN new_cleaned)
                /\ normalize_value(Get(current_cleaned, field, NA), keep)
                     # normalize_value(Get(new_cleaned, field, NA), keep)
                /\ Get(current_orig, field, NA) # Get(new_orig, field, NA)
             THEN <<FieldLine(field, Get(current_orig, field, NA),
                              Get(new_orig, field, NA))>> \o rest
             ELSE rest

\* the lines the loop over common_keys appends for one key (lines 236-259)
CommonLines(current_orig, new_orig, key) ==
    LET current_cleaned == clean_assignment(current_orig)
        new_cleaned     == clean_assignment(new_orig)
    IN  IF assignments_equal(current_cleaned, new_cleaned)
        THEN <<>>
        ELSE LET field_changes == FieldChanges(SortedFields, current_cleaned,
                                               new_cleaned, current_orig, new_orig)
             IN  IF field_changes = <<>> THEN <<>>
                 ELSE <<KeyLine("header", key)>> \o field_changes

RECURSIVE Flatten(_)
Flatten(ss) == IF ss = <<>> THEN <<>> ELSE Head(ss) \o Flatten(Tail(ss))

\* compare_assignments returning bool(new_assignments_list) as has_changes
compare_assignments_added_only(current_assignments, new_assignments) ==
    LET current_keys == KeySeq(current_assignments)
        new_keys     == KeySeq(new_assignments)
        added        == added_keys(Range(current_keys), Range(new_keys))
        removed      == removed_keys(Range(current_keys), Range(new_keys))
        common       == common_keys(Range(current_keys), Range(new_keys))
        lines(key)   == CommonLines(OrigOf(current_assignments, current_keys, key),
                                    OrigOf(new_assignments, new_keys, key), key)
    IN  { [hasChanges   |-> ao # <<>>,
           changes      |-> [i \in 1..Len(ao) |-> KeyLine("added", ao[i])]
                              \o [i \in 1..Len(ro) |-> KeyLine("removed", ro[i])]
                              \o Flatten([i \in 1..Len(co) |-> lines(co[i])]),
           newlyAdded   |-> [i \in 1..Len(ao) |->
                                OrigOf(new_assignments, new_keys, ao[i])],
           added_keys   |-> added,
           removed_keys |-> removed,
           common_keys  |-> common]
          : ao \in Orders(added), ro \in Orders(removed), co \in Orders(common) }

\* compare_assignments(new_assignments) when the file holds
\* current_assignments: the set of (has_changes, changes, new_assignments_list)
\* it may return, one for each order in which the three key sets are iterated.
\* The three key sets are returned with the result.
compare_assignments(current_assignments, new_assignments) ==
    LET current_keys == KeySeq(current_assignments)
        new_keys     == KeySeq(new_assignments)
        added        == added_keys(Range(current_keys), Range(new_keys))
        removed      == removed_keys(Range(current_keys), Range(new_keys))
        common       == common_keys(Range(current_keys), Range(new_keys))
        lines(key)   == CommonLines(OrigOf(current_assignments, current_keys, key),
                                    OrigOf(new_assignments, new_keys, key), key)
    IN  { LET changes ==
                  [i \in 1..Len(ao) |-> KeyLine("added", ao[i])]
                    \o [i \in 1..Len(ro) |-> KeyLine("removed", ro[i])]
                    \o Flatten([i \in 1..Len(co) |-> lines(co[i])])
          IN  [hasChanges   |-> changes # <<>>,
               changes      |-> changes,
               newlyAdded   |-> [i \in 1..Len(ao) |->
                                    OrigOf(new_assignments, new_keys, ao[i])],
               added_keys   |-> added,
               removed_keys |-> removed,
               common_keys  |-> common]
          : ao \in Orders(added), ro \in Orders(removed), co \in Orders(common) }

----------------------------------------------------------------------------
(* storage.py: the snapshot file and the operations on it                  *)

\* timedelta(days=7) of _clean_old_history
RetentionDays == 7

\* A file that holds the JSON object save_assignments writes.  last_updated
\* is <<>> for null and <<t>> for the timestamp t.
Snapshot(last_updated, assignments, history) ==
    [kind |-> "ok", last_updated |-> last_updated,
     assignments |-> assignments, history |-> history]

\* No file, a file json.load() rejects, a file holding some other JSON object
NoFile      == [kind |-> "missing", last_updated |-> <<>>,
                assignments |-> <<>>, history |-> <<>>]
CorruptFile == [kind |-> "corrupt", last_updated |-> <<>>,
                assignments |-> <<>>, history |-> <<>>]
OtherJson   == [kind |-> "other", last_updated |-> <<>>,
                assignments |-> <<>>, history |-> <<>>]

\* _read_storage: the default when the file is missing or json.load() raises,
\* else whatever the file holds
read_storage(f) ==
    IF f.kind \in {"missing", "corrupt"} THEN Snapshot(<<>>, <<>>, <<>>) ELSE f

\* _clean_old_history keeping the entries that are exactly 7 days old
RECURSIVE clean_old_history_inclusive(_, _)
clean_old_history_inclusive(history, t) ==
    IF history = <<>> THEN <<>>
    ELSE LET entry == Head(history)
             rest  == clean_old_history_inclusive(Tail(history), t)
         IN  IF entry.timestamp # <<>> /\ entry.timestamp[1] >= t - RetentionDays
             THEN <<entry>> \o rest
             ELSE rest

\* _clean_old_history at time t: ISO timestamps of one format order as the
\* instants they denote
RECURSIVE clean_old_history(_, _)
clean_old_history(history, t) ==
    IF history = <<>> THEN <<>>
    ELSE LET entry == Head(history)
             rest  == clean_old_history(Tail(history), t)
         IN  IF entry.timestamp # <<>> /\ entry.timestamp[1] > t - RetentionDays
             THEN <<entry>> \o rest
             ELSE rest

\* get_assignments: data['assignments'], [] when that raises KeyError
get_assignments(f) ==
    LET data == read_storage(f)
    IN  IF data.kind = "other" THEN <<>> ELSE data.assignments

\* get_assignment_history at time t
get_assignment_history(f, t) ==
    LET data == read_storage(f)
    IN  IF data.kind = "other" THEN <<>> ELSE clean_old_history(data.history, t)

\* save_assignments without line 91
saved_data_stale(f, assignments, t) ==
    LET data    == read_storage(f)
        pushed  == IF data.assignments # <<>>
                   THEN Append(data.history,
                               [timestamp   |-> data.last_updated,
                                assignments |-> data.assignments])
                   ELSE data.history
    IN  Snapshot(<<t>>, data.assignments, clean_old_history(pushed, t))

\* save_assignments stamping the history entry with the time of the save
saved_data_restamped(f, assignments, t) ==
    LET data    == read_storage(f)
        pushed  == IF data.assignments # <<>>
                   THEN Append(data.history,
                               [timestamp   |-> <<t>>,
                                assignments |-> data.assignments])
                   ELSE data.history
    IN  Snapshot(<<t>>, assignments, clean_old_history(pushed, t))

\* the dict save_assignments hands to _write_storage at time t
saved_data(f, assignments, t) ==
    LET data    == read_storage(f)
        pushed  == IF data.assignments # <<>>
                   THEN Append(data.history,
                               [timestamp   |-> data.last_updated,
                                assignments |-> data.assignments])
                   ELSE data.history
    IN  Snapshot(<<t>>, assignments, clean_old_history(pushed, t))

\* save_assignments at time t; `writable` is whether open(file, 'w') succeeds.
\* Returns the file afterwards and the boolean result.
save_assignments(f, assignments, t, writable) ==
    IF read_storage(f).kind = "other" \/ ~writable
    THEN [file |-> f, ok |-> FALSE]
    ELSE [file |-> saved_data(f, assignments, t), ok |-> TRUE]

----------------------------------------------------------------------------
(* validation.py: extract_date_time                                        *)

\* \w of the regular expressions: letters, digits and the units made of them
IsWord(c) == ~IsSpace(c) /\ c \notin {"/", "-", ":"}

DateUnits == {"D", "Dc"}
MeridiemUnits == {"AM", "am"}

\* index of the first character at or after i that is no whitespace
\* (Len(s) + 1 if there is none)
RECURSIVE SkipWs(_, _)
SkipWs(s, i) == IF i <= Len(s) /\ IsSpace(s[i]) THEN SkipWs(s, i + 1) ELSE i

\* r'\b(\d{1,2}/\d{1,2}/\d{2,4}\s+\d{1,2}:\d{2}\s*(?:AM|PM)?)\b' with
\* re.IGNORECASE, tried at position i: the text matched, <<>> if none.
\* \s* is greedy and gives characters back only as far as the final \b needs.
MatchSlashDate(s, i) ==
    LET a == SkipWs(s, i + 1)          \* where the time must be
        b == SkipWs(s, a + 1)          \* first non-blank after the time
    IN  IF ~(/\ s[i] \in DateUnits
             /\ (i = 1 \/ ~IsWord(s[i - 1]))
             /\ a > i + 1 /\ a <= Len(s) /\ s[a] = "T")
        THEN <<>>
        ELSE IF /\ b <= Len(s) /\ s[b] \in MeridiemUnits
                /\ (b = Len(s) \/ ~IsWord(s[b + 1]))
             THEN SubSeq(s, i, b)
        ELSE IF b <= Len(s) /\ IsWord(s[b])
             THEN (IF b > a + 1 THEN SubSeq(s, i, b - 1) ELSE <<>>)
        ELSE SubSeq(s, i, a)

\* r'\b(\d{4}-\d{2}-\d{2}\s+\d{2}:\d{2})\b' tried at position i
MatchIsoDate(s, i) ==
    LET a == SkipWs(s, i + 1)
    IN  IF /\ s[i] = "I"
           /\ (i = 1 \/ ~IsWord(s[i - 1]))
           /\ a > i + 1 /\ a <= Len(s) /\ s[a] = "T"
           /\ (a = Len(s) \/ ~IsWord(s[a + 1]))
        THEN SubSeq(s, i, a)
        ELSE <<>>

\* re.findall(pattern, text)[0]: the leftmost match, <<>> if there is none
RECURSIVE FirstSlashDate(_, _)
FirstSlashDate(s, i) ==
    IF i > Len(s) THEN <<>>
    ELSE IF MatchSlashDate(s, i) # <<>> THEN MatchSlashDate(s, i)
    ELSE FirstSlashDate(s, i + 1)

RECURSIVE FirstIsoDate(_, _)
FirstIsoDate(s, i) ==
    IF i > Len(s) THEN <<>>
    ELSE IF MatchIsoDate(s, i) # <<>> THEN MatchIsoDate(s, i)
    ELSE FirstIsoDate(s, i + 1)

\* extract_date_time(text); <<>> stands for None.  The patterns of lines
\* 260-261 (dashed dates, month names) match no text of the model's alphabet.
extract_date_time(text) ==
    IF FirstSlashDate(text, 1) # <<>> THEN FirstSlashDate(text, 1)
    ELSE FirstIsoDate(text, 1)

----------------------------------------------------------------------------
(* validation.py: sanitize_assignment                                      *)

lowercase_fields == {"customer", "service_type"}

\* case_sensitive_fields of sanitize_assignment (line 287)
sanitize_case_sensitive_fields == {"info", "comments", "language"}

empty_values ==
    { <<"n", "/", "a">>, <<"none">>, <<"null">>, <<"-">>, <<"unknown">>,
      <<"not", " ", "specified">>, <<"not", " ", "available">> }

\* dt.strftime('%m/%d/%Y %I:%M %p') of the model's date and time
CanonicalDate == <<"Dc", " ", "T", " ", "AM">>

\* The loop over the formats of lines 318-327 applied to value: the
\* standardized text if a format matches, else value as it is.  A format
\* matches the whole value, with a whitespace run wherever it has a blank.
\* Of the eight formats only '%m/%d/%Y %I:%M %p' (also with '\n') and
\* '%m/%d/%Y %H:%M' match texts of the model's alphabet.
standardize_date(value) ==
    LET words == split(value)
    IN  IF /\ value # <<>>
           /\ ~IsSpace(value[1]) /\ ~IsSpace(value[Len(value)])
           /\ Len(words) \in {2, 3}
           /\ Len(words[1]) = 1 /\ words[1][1] \in DateUnits
           /\ words[2] = <<"T">>
           /\ Len(words) = 3 => (Len(words[3]) = 1 /\ words[3][1] \in MeridiemUnits)
        THEN CanonicalDate
        ELSE value

\* `pattern in value` for a one-word pattern
Contains(value, unit) == \E i \in DOMAIN value : value[i] = unit

\* the service_type_mapping loop (lines 348-358), for the patterns the
\* model's alphabet can spell
map_service_type(value) ==
    IF Contains(value, "video") THEN <<"video", " ", "interpretation">> ELSE value

\* lines 304-313: a blank date_time taken from info, else from comments
extracted_date(assignment) ==
    LET fromInfo == IF "info" \in DOMAIN assignment
                    THEN extract_date_time(assignment["info"]) ELSE <<>>
        fromComments == IF "comments" \in DOMAIN assignment
                        THEN extract_date_time(assignment["comments"]) ELSE <<>>
    IN  IF fromInfo # <<>> THEN fromInfo
        ELSE IF fromComments # <<>> THEN fromComments
        ELSE NA

\* the value sanitize_assignment stores under key (lines 297-362)
sanitize_value(assignment, key) ==
    LET stripped == strip(assignment[key])
        isEmpty  == stripped = <<>> \/ lower(stripped) \in empty_values
        v1 == IF ~isEmpty THEN stripped
              ELSE IF key # "date_time" THEN NA
              ELSE LET e == extracted_date(assignment)
                   IN  IF lower(e) \notin empty_values THEN standardize_date(e) ELSE e
        v2 == IF key \in lowercase_fields THEN lower(v1)
              ELSE IF key \notin sanitize_case_sensitive_fields THEN lower(v1)
              ELSE v1
        v3 == IF key = "service_type" THEN map_service_type(lower(strip(v2))) ELSE v2
    IN  IF key = "language" THEN strip(v3) ELSE v3

sanitize_assignment(assignment) ==
    [key \in (DOMAIN assignment) \ {"header", "timestamp"} |->
        sanitize_value(assignment, key)]

----------------------------------------------------------------------------
(* validation.py: AssignmentValidator.validate_assignment                  *)

\* a field value that is not a str (an int, None, ...)
NonStr == <<"<int>">>

\* isinstance(value, str)
IsStr(value) == value # NonStr

\* the keys of REQUIRED_FIELDS, in the order of the dict
REQUIRED_FIELDS ==
    <<"customer", "date_time", "language", "service_type", "info", "comments">>

VALID_SERVICE_TYPES ==
    { <<"in-person", " ", "interpretation">>, <<"video", " ", "interpretation">>,
      <<"phone", " ", "interpretation">>, <<"document", " ", "translation">>,
      <<"in", " ", "person", " ", "interpretation">>, <<"in-person">>,
      <<"video">>, <<"phone">>, <<"document">> }

\* the languages are spelled character by character
COMMON_LANGUAGES ==
    { <<"S", "p", "a", "n", "i", "s", "h">>, <<"F", "r", "e", "n", "c", "h">>,
      <<"P", "o", "r", "t", "u", "g", "u", "e", "s", "e">>,
      <<"M", "a", "n", "d", "a", "r", "i", "n">>,
      <<"C", "a", "n", "t", "o", "n", "e", "s", "e">>,
      <<"V", "i", "e", "t", "n", "a", "m", "e", "s", "e">>,
      <<"R", "u", "s", "s", "i", "a", "n">>, <<"A", "r", "a", "b", "i", "c">>,
      <<"K", "o", "r", "e", "a", "n">>, <<"J", "a", "p", "a", "n", "e", "s", "e">> }

\* AssignmentValidationError(field, error, value); close_matches of a
\* possible typo is a list built by iterating a set, kept here as the set
ValidationError(field, error, value, matches) ==
    [field |-> field, error |-> error, value |-> value, matches |-> matches]

\* the loop over REQUIRED_FIELDS (lines 61-76)
RECURSIVE required_errors(_, _)
required_errors(fields, assignment) ==
    IF fields = <<>> THEN <<>>
    ELSE LET field == Head(fields)
         IN  (IF field \notin DOMAIN assignment
              THEN <<ValidationError(field, "Missing required field", NA, {})>>
              ELSE IF ~IsStr(assignment[field])
              THEN <<ValidationError(field, "Invalid type", assignment[field], {})>>
              ELSE <<>>)
             \o required_errors(Tail(fields), assignment)

\* the pattern of line 89 tried at position i: the text matched, <<>> if
\* none.  It has no \b and no re.IGNORECASE; its \s* keeps the whitespace
\* after the time whether or not AM or PM follows.
MatchDateAt(s, i) ==
    LET a == SkipWs(s, i + 1)
        b == SkipWs(s, a + 1)
    IN  IF ~(a > i + 1 /\ a <= Len(s) /\ s[a] = "T") THEN <<>>
        ELSE IF s[i] \in DateUnits
             THEN (IF b <= Len(s) /\ s[b] = "AM" THEN SubSeq(s, i, b)
                   ELSE SubSeq(s, i, b - 1))
        ELSE IF s[i] = "I" THEN SubSeq(s, i, a)
        ELSE <<>>

\* re.findall(...)[0] for the pattern of line 89, <<>> if there is no match
RECURSIVE FirstDate(_, _)
FirstDate(s, i) ==
    IF i > Len(s) THEN <<>>
    ELSE IF MatchDateAt(s, i) # <<>> THEN MatchDateAt(s, i)
    ELSE FirstDate(s, i + 1)

\* whether one of the formats of line 104 parses date_str: of the three,
\* '%m/%d/%Y %I:%M %p' and '%m/%d/%Y\n%I:%M %p' match texts of the model
parses_date(date_str) ==
    LET words == split(date_str)
    IN  /\ date_str # <<>>
        /\ ~IsSpace(date_str[1]) /\ ~IsSpace(date_str[Len(date_str)])
        /\ Len(words) = 3
        /\ Len(words[1]) = 1 /\ words[1][1] \in DateUnits
        /\ words[2] = <<"T">>
        /\ Len(words[3]) = 1 /\ words[3][1] \in MeridiemUnits

\* lines 78-119: what the date_time step does to (errors, assignment).
\* `raised` is a TypeError of re.findall on a value that is no text,
\* `returned` the early return of line 101.
validate_date_time(assignment) ==
    LET none == [raised |-> FALSE, returned |-> FALSE, errors |-> <<>>,
                 assignment |-> assignment]
        has(field) == field \in DOMAIN assignment
        infoBad == has("info") /\ ~IsStr(assignment["info"])
        fromInfo == IF has("info") /\ ~infoBad
                    THEN FirstDate(assignment["info"], 1) ELSE <<>>
        commentsBad == fromInfo = <<>> /\ has("comments")
                       /\ ~IsStr(assignment["comments"])
        fromComments == IF fromInfo = <<>> /\ has("comments") /\ ~commentsBad
                        THEN FirstDate(assignment["comments"], 1) ELSE <<>>
        date_str == IF fromInfo # <<>> THEN fromInfo ELSE fromComments
    IN  IF has("date_time") THEN none
        ELSE IF infoBad \/ commentsBad THEN [none EXCEPT !.raised = TRUE]
        ELSE IF date_str = <<>>
        THEN [none EXCEPT !.returned = TRUE,
                 !.errors = <<ValidationError("date_time",
                     "Missing required field and could not extract from other fields",
                     NA, {})>>]
        ELSE IF parses_date(date_str)
        THEN [none EXCEPT !.assignment = Put(assignment, "date_time", CanonicalDate)]
        ELSE [none EXCEPT !.assignment = Put(assignment, "date_time", date_str),
                 !.errors = <<ValidationError("date_time", "Invalid date format",
                                              date_str, {})>>]

\* normalized_type of lines 124-133, for the patterns the model can spell
normalized_service_type(service_type) ==
    IF Contains(service_type, "video")
    THEN <<"video", " ", "interpretation">> ELSE service_type

\* lines 121-143; `raised` is the AttributeError of .lower() on a value
\* that is no text
validate_service_type(assignment) ==
    LET none == [raised |-> FALSE, errors |-> <<>>, assignment |-> assignment]
    IN  IF "service_type" \notin DOMAIN assignment THEN none
        ELSE IF ~IsStr(assignment["service_type"]) THEN [none EXCEPT !.raised = TRUE]
        ELSE LET service_type == strip(lower(assignment["service_type"]))
                 normalized_type == normalized_service_type(service_type)
             IN  IF normalized_type \notin VALID_SERVICE_TYPES
                 THEN [none EXCEPT !.errors =
                          <<ValidationError("service_type", "Unknown service type",
                                            service_type, {})>>]
                 ELSE [none EXCEPT !.assignment =
                          Put(assignment, "service_type", normalized_type)]

\* lines 145-152, in the order the scraper builds the dict
RECURSIVE empty_errors(_, _)
empty_errors(fields, assignment) ==
    IF fields = <<>> THEN <<>>
    ELSE LET field == Head(fields)
         IN  (IF /\ field \in DOMAIN assignment
                 /\ IsStr(assignment[field])
                 /\ strip(assignment[field]) = <<>>
              THEN <<ValidationError(field, "Empty or whitespace-only value",
                                     assignment[field], {})>>
              ELSE <<>>)
             \o empty_errors(Tail(fields), assignment)

Min(a, b) == IF a < b THEN a ELSE b

\* distances_ of _similar_strings for the character c2 at index i2 of s2,
\* extended from the entries built so far
RECURSIVE next_distances(_, _, _, _)
next_distances(s1, c2, distances, built) ==
    LET i1 == Len(built)
    IN  IF i1 > Len(s1) THEN built
        ELSE next_distances(s1, c2, distances,
                 Append(built,
                        IF s1[i1] = c2 THEN distances[i1]
                        ELSE 1 + Min(Min(distances[i1], distances[i1 + 1]),
                                     built[i1])))

\* the loop over s2 (lines 218-226): the last row of distances
RECURSIVE edit_distances(_, _, _, _)
edit_distances(s1, s2, i2, distances) ==
    IF i2 > Len(s2) THEN distances
    ELSE edit_distances(s1, s2, i2 + 1,
                        next_distances(s1, s2[i2], distances, <<i2>>))

\* _similar_strings(s1, s2)
similar_strings(a, b) ==
    LET la == lower(a)
        lb == lower(b)
        s1 == IF Len(la) > Len(lb) THEN lb ELSE la
        s2 == IF Len(la) > Len(lb) THEN la ELSE lb
        last == edit_distances(s1, s2, 1, [i \in 1..(Len(s1) + 1) |-> i - 1])
    IN  la = lb \/ last[Len(last)] <= 2

\* lines 154-166; `raised` is the AttributeError of .lower() in
\* _similar_strings on a value that is no text
validate_language(assignment) ==
    LET none == [raised |-> FALSE, errors |-> <<>>]
    IN  IF "language" \notin DOMAIN assignment THEN none
        ELSE LET language == assignment["language"]
             IN  IF ~IsStr(language) THEN [none EXCEPT !.raised = TRUE]
                 ELSE IF language \in COMMON_LANGUAGES THEN none
                 ELSE LET close_matches ==
                              {l \in COMMON_LANGUAGES : similar_strings(language, l)}
                      IN  IF close_matches = {} THEN none
                          ELSE [none EXCEPT !.errors =
                                   <<ValidationError("language", "Possible typo",
                                                     language, close_matches)>>]

\* _is_valid_customer_name(name)
is_valid_customer_name(name) ==
    LET n == strip(lower(name))
    IN  ~ \/ n = <<>>
          \/ \A i \in DOMAIN n : n[i] \in {"1", "2"}
          \/ n[1] = "test" /\ \A i \in DOMAIN n : n[i] # "\n"
          \/ n = <<"unknown">>
          \/ n \in {<<"n", "/", "a">>, <<"n", "a">>}

\* lines 168-175; `raised` is the AttributeError of name.lower()
validate_customer(assignment) ==
    LET none == [raised |-> FALSE, errors |-> <<>>]
    IN  IF "customer" \notin DOMAIN assignment THEN none
        ELSE IF ~IsStr(assignment["customer"]) THEN [none EXCEPT !.raised = TRUE]
        ELSE IF is_valid_customer_name(assignment["customer"]) THEN none
        ELSE [none EXCEPT !.errors =
                 <<ValidationError("customer", "Invalid customer name format",
                                   assignment["customer"], {})>>]

\* validate_assignment(assignment): whether it raised, the errors it
\* returned, and the dict `assignment` as the call left it
validate_assignment(assignment) ==
    LET required == required_errors(REQUIRED_FIELDS, assignment)
        date == validate_date_time(assignment)
        service == validate_service_type(date.assignment)
        empty == empty_errors(REQUIRED_FIELDS, service.assignment)
        language == validate_language(service.assignment)
        customer == validate_customer(service.assignment)
        out(raised, errors, after) ==
            [raised |-> raised, errors |-> errors, after |-> after]
    IN  IF date.raised THEN out(TRUE, <<>>, assignment)
        ELSE IF date.returned THEN out(FALSE, required \o date.errors, assignment)
        ELSE IF service.raised THEN out(TRUE, <<>>, date.assignment)
        ELSE IF language.raised \/ customer.raised
        THEN out(TRUE, <<>>, service.assignment)
        ELSE out(FALSE,
                 required \o date.errors \o service.errors \o empty
                 \o language.errors \o customer.errors,
                 service.assignment)

----------------------------------------------------------------------------
(* main.py: the legacy report, save_assignments and parse_assignments      *)

\* str.split(sep) for a one-character sep: the pieces between the
\* occurrences of sep
SplitOn(s, sep) ==
    LET at == SelectSeq([i \in 1..Len(s) |-> i], LAMBDA i : s[i] = sep)
        n  == Len(at)
    IN  [k \in 1..(n + 1) |->
            SubSeq(s, IF k = 1 THEN 1 ELSE at[k - 1] + 1,
                      IF k = n + 1 THEN Len(s) ELSE at[k] - 1)]

\* text.split('\n')
split_lines(text) == SplitOn(text, "\n")

\* ':' in line
HasColon(line) == \E i \in DOMAIN line : line[i] = ":"

\* position of the first ':' of a line that has one
ColonAt(line) ==
    CHOOSE i \in DOMAIN line : line[i] = ":" /\ \A j \in 1..(i - 1) : line[j] # ":"

\* line.split(':', 1)[0] and line.split(':', 1)[1]
BeforeColon(line) == SubSeq(line, 1, ColonAt(line) - 1)
AfterColon(line) == SubSeq(line, ColonAt(line) + 1, Len(line))

\* the labels save_assignments looks for in a line of info, in the order of
\* its elif chain, each with the key its value is stored under
info_labels ==
    << <<"Contact person's name and phone number", "contact_person_name_and_phone">>,
       <<"Contact person's email address", "contact_person's_email_address">>,
       <<"Address", "address">>,
       <<"Location", "location">>,
       <<"Client name and phone", "client_name_and_phone">> >>

\* '<label>:' in line
HasLabel(line, label) ==
    \E i \in 1..(Len(line) - 1) : line[i] = label /\ line[i + 1] = ":"

\* the loop over the lines of info (lines 62-74)
RECURSIVE scan_info(_, _)
scan_info(lines, formatted) ==
    IF lines = <<>> THEN formatted
    ELSE LET line == strip(Head(lines))
             hits == {i \in DOMAIN info_labels : HasLabel(line, info_labels[i][1])}
         IN  IF hits = {} THEN scan_info(Tail(lines), formatted)
             ELSE LET first == CHOOSE i \in hits : \A j \in hits : i <= j
                  IN  scan_info(Tail(lines),
                                Put(formatted, info_labels[first][2],
                                    strip(AfterColon(line))))

\* `formatted` of one assignment (lines 58-76)
format_assignment(assignment) ==
    LET basic == [k \in {"customer", "date_time", "language", "service_type"} |->
                     Get(assignment, k, <<>>)]
        scanned == scan_info(split_lines(Get(assignment, "info", <<>>)), basic)
    IN  Put(scanned, "comments", Get(assignment, "comments", <<>>))

\* sorted() of the keys `formatted` can have
sorted_keys ==
    <<"address", "client_name_and_phone", "comments",
      "contact_person's_email_address", "contact_person_name_and_phone",
      "customer", "date_time", "language", "location", "service_type">>

\* key.title()
title(key) ==
    CASE key = "address" -> "Address"
      [] key = "client_name_and_phone" -> "Client_Name_And_Phone"
      [] key = "comments" -> "Comments"
      [] key = "contact_person's_email_address" -> "Contact_Person'S_Email_Address"
      [] key = "contact_person_name_and_phone" -> "Contact_Person_Name_And_Phone"
      [] key = "customer" -> "Customer"
      [] key = "date_time" -> "Date_Time"
      [] key = "language" -> "Language"
      [] key = "location" -> "Location"
      [] key = "service_type" -> "Service_Type"

\* str(i)
Digits == <<"1", "2", "3", "4", "5", "6", "7", "8", "9">>

\* "-" * 30
Dashes == [i \in 1..30 |-> "-"]

\* the 'Key: value' lines of one assignment (lines 84-86)
RECURSIVE field_lines(_, _)
field_lines(keys, formatted) ==
    IF keys = <<>> THEN <<>>
    ELSE LET key == Head(keys)
         IN  (IF key \in DOMAIN formatted /\ formatted[key] # <<>>
              THEN <<title(key), ":", " ">> \o formatted[key] \o <<"\n">>
              ELSE <<>>)
             \o field_lines(Tail(keys), formatted)

\* what lines 81-87 write for the assignments from the i-th on
RECURSIVE report_body(_, _)
report_body(assignments, i) ==
    IF i > Len(assignments) THEN <<>>
    ELSE <<"Assignment #", Digits[i], ":", "\n">> \o Dashes \o <<"\n">>
         \o field_lines(sorted_keys, format_assignment(assignments[i]))
         \o <<"\n">>
         \o report_body(assignments, i + 1)

\* the text save_assignments(assignments) writes to the file; "now" stands
\* for the time of the header line
main_save_assignments(assignments) ==
    <<"Bridge Assignments Report", " ", "-", " ", "now", "\n", "\n">>
    \o report_body(assignments, 1)

\* the list `lines` of parse_assignments (lines 102-103)
report_lines(content) ==
    LET all == split_lines(content)
        kept == SelectSeq(all, LAMBDA line :
                    /\ strip(line) # <<>>
                    /\ ~(line # <<>> /\ line[1] = "Bridge Assignments Report"))
    IN  [i \in DOMAIN kept |-> strip(kept[i])]

\* key.lower().replace(' ', '_')
normalize_key(key) ==
    [i \in DOMAIN key |-> IF key[i] = " " THEN "_" ELSE LowerChar(key[i])]

\* the loop of parse_assignments (lines 105-118) and the final append
RECURSIVE parse_lines(_, _, _)
parse_lines(lines, current_assignment, assignments_list) ==
    IF lines = <<>>
    THEN (IF current_assignment # <<>>
          THEN Append(assignments_list, current_assignment)
          ELSE assignments_list)
    ELSE LET line == Head(lines)
         IN  IF line[1] = "Assignment #"
             THEN parse_lines(Tail(lines), <<>>,
                              IF current_assignment # <<>>
                              THEN Append(assignments_list, current_assignment)
                              ELSE assignments_list)
             ELSE IF line[1] = "-"
             THEN parse_lines(Tail(lines), current_assignment, assignments_list)
             ELSE IF HasColon(line)
             THEN LET key == normalize_key(strip(BeforeColon(line)))
                      text == strip(AfterColon(line))
                      value == IF lower(text) \in {<<"n", "/", "a">>, <<"none">>, <<>>}
                               THEN <<>> ELSE text
                  IN  parse_lines(Tail(lines), Put(current_assignment, key, value),
                                  assignments_list)
             ELSE parse_lines(Tail(lines), current_assignment, assignments_list)

\* parse_assignments(content): a list of dicts whose keys are texts
parse_assignments(content) == parse_lines(report_lines(content), <<>>, <<>>)

----------------------------------------------------------------------------
(* main.py: compare_assignments                                            *)

main_get_assignment_key(assignment) ==
    << Get(assignment, <<"customer">>, <<>>),
       Get(assignment, <<"date_time">>, <<>>),
       Get(assignment, <<"language">>, <<>>) >>

important_fields ==
    << <<"customer">>, <<"date_time">>, <<"language">>, <<"service_type">>,
       <<"location">>, <<"client_name_and_phone">>,
       <<"contact_person's_email_address">> >>

\* one entry of `changes`
ChangeLine(kind, key, field, old, new) ==
    [kind |-> kind, customer |-> key[1], date_time |-> key[2],
     language |-> key[3], field |-> field, old |-> old, new |-> new]

\* next(a for a in assignments if get_assignment_key(a) == key)
FirstWithKey(assignments, key) ==
    LET idx == {i \in DOMAIN assignments :
                    main_get_assignment_key(assignments[i]) = key}
    IN  assignments[CHOOSE i \in idx : \A j \in idx : i <= j]

\* assignment_changes of one common key (lines 158-164)
RECURSIVE assignment_changes(_, _, _, _)
assignment_changes(fields, key, prev, curr) ==
    IF fields = <<>> THEN <<>>
    ELSE LET prev_value == Get(prev, Head(fields), <<>>)
             curr_value == Get(curr, Head(fields), <<>>)
         IN  (IF prev_value # curr_value
              THEN <<ChangeLine("  - ", key, Head(fields), prev_value, curr_value)>>
              ELSE <<>>)
             \o assignment_changes(Tail(fields), key, prev, curr)

\* what the loop over common_keys appends for one key (lines 153-169)
common_changes(prev_assignments, curr_assignments, key) ==
    LET lines == assignment_changes(important_fields, key,
                                    FirstWithKey(prev_assignments, key),
                                    FirstWithKey(curr_assignments, key))
    IN  IF lines = <<>> THEN <<>>
        ELSE <<ChangeLine("Changes in Assignment", key, <<>>, <<>>, <<>>)>> \o lines

\* compare_assignments(prev_assignments, curr_assignments): the set of
\* (has_changes, changes) it may return, one for each order in which the
\* three key sets are iterated, with the key sets
main_compare_assignments(prev_assignments, curr_assignments) ==
    LET prev_keys == {main_get_assignment_key(a) : a \in Range(prev_assignments)}
        curr_keys == {main_get_assignment_key(a) : a \in Range(curr_assignments)}
        new == curr_keys \ prev_keys
        removed == prev_keys \ curr_keys
        common == prev_keys \cap curr_keys
    IN  { LET changes ==
                  [i \in DOMAIN no |->
                      ChangeLine("New assignment added", no[i], <<>>, <<>>, <<>>)]
                  \o [i \in DOMAIN ro |->
                      ChangeLine("Assignment removed", ro[i], <<>>, <<>>, <<>>)]
                  \o Flatten([i \in DOMAIN co |->
                      common_changes(prev_assignments, curr_assignments, co[i])])
          IN  [has_changes |-> changes # <<>>, changes |-> changes,
               new_keys |-> new, removed_keys |-> removed]
          : no \in Orders(new), ro \in Orders(removed),
            co \in Orders(common) }

----------------------------------------------------------------------------
(* email_handler.py: send_notification                                     *)

\* the number of parameters of send_notification(changes, assignments)
send_notification_arity == 2

\* what send_notification(changes, assignments) may return: False for an
\* empty `changes`, missing credentials or a failed transport, True once
\* the server has taken the message
send_notification(changes, assignments) ==
    IF changes = <<>> THEN {FALSE} ELSE BOOLEAN

\* a call send_notification(*args): the outcomes it may have.  A call with
\* the wrong number of arguments raises TypeError in each attempt of the
\* retry decorator, which then raises RetryError.
call_send_notification(args) ==
    IF Len(args) # send_notification_arity
    THEN {[raised |-> TRUE, value |-> FALSE]}
    ELSE {[raised |-> FALSE, value |-> v] : v \in send_notification(args[1], args[2])}

----------------------------------------------------------------------------
(* Inputs of the model                                                     *)

Rec(c, d, l, s, i, m) ==
    [customer |-> c, date_time |-> d, language |-> l, service_type |-> s,
     info |-> i, comments |-> m]

\* "A b" on day "1", and a second posting "b" on day "2"
Base1 == Rec(<<"A", " ", "b">>, <<"1">>, <<"B", "a">>, <<"A">>, <<"a", " ", "b">>, <<"a">>)
Base2 == Rec(<<"b">>, <<"2">>, <<"B", "a">>, <<"A">>, <<"a", " ", "b">>, <<"a">>)

\* Base1 in another letter case and spacing of customer, service_type and
\* language
Recased ==
    [Base1 EXCEPT !.customer = <<"a", " ", " ", "B">>,
                  !.service_type = <<" ", "a">>,
                  !.language = <<"B", "A">>]

\* Base1 with other text, case or spacing in info or comments
Variants ==
    {[Base1 EXCEPT !.info = v] :
        v \in {<<"a", " ", "\n", "b">>, <<"A", " ", "b">>, <<"b">>}}
    \cup {[Base1 EXCEPT !.comments = v] : v \in {<<"A">>, <<"b">>}}

\* what the snapshot is made of, and what it is compared with
StoredRecords == {Base1, Base2}
Records == {Base1, Base2, Recased} \cup Variants

\* the record lists of at most n records
RECURSIVE ListsUpTo(_, _)
ListsUpTo(R, n) ==
    IF n = 0 THEN {<<>>}
    ELSE LET shorter == ListsUpTo(R, n - 1)
         IN  shorter \cup {Append(l, r) : l \in shorter, r \in R}

Lists == ListsUpTo(Records, MaxRecs)
StoredLists == ListsUpTo(StoredRecords, MaxRecs)

----------------------------------------------------------------------------
(* The storage API called by one process                                   *)

\* sanitize_assignment not called
NoSan == [stage |-> "none", raw |-> <<>>, once |-> <<>>, twice |-> <<>>]

\* `before` is <<f>> for the file f the call found, `history` the list
\* get_assignment_history returned, `writable` whether a save could open
\* the file for writing
NoRet == [op |-> "none", arg |-> <<>>, ok |-> FALSE, hasChanges |-> FALSE,
          changes |-> <<>>, newlyAdded |-> <<>>,
          added_keys |-> {}, removed_keys |-> {}, common_keys |-> {},
          before |-> <<>>, history |-> <<>>, writable |-> FALSE]

NoRun == [ran |-> FALSE, assignments |-> <<>>, has_changes |-> FALSE,
          changes |-> <<>>, new_keys |-> {}, removed_keys |-> {},
          notified |-> FALSE, delivered |-> FALSE, exit |-> 0,
          mail_up |-> FALSE]

\* main() has not run and has left no file
MainIdle ==
    /\ previous_txt = <<>>
    /\ assignments_txt = <<>>
    /\ run = NoRun

NoVal == [stage |-> "none", input |-> <<>>, raised |-> FALSE,
          errors |-> <<>>, after |-> <<>>]

StorageInit ==
    /\ file = NoFile
    /\ now = 0
    /\ pc = "idle"
    /\ ret = NoRet
    /\ saved = <<>>

Init ==
    /\ StorageInit
    /\ san = NoSan
    /\ MainIdle
    /\ val = NoVal

\* storage.save_assignments(x), as long as it leaves a history of at most
\* n entries
SaveUpTo(x, n) ==
    /\ pc = "idle"
    /\ \E writable \in BOOLEAN :
         LET r == save_assignments(file, x, now, writable)
         IN  /\ Len(r.file.history) <= n
             /\ file' = r.file
             /\ ret' = [NoRet EXCEPT !.op = "save", !.arg = x, !.ok = r.ok,
                                     !.before = <<file>>, !.writable = writable]
             /\ saved' = IF r.ok THEN <<x>> ELSE saved
    /\ pc' = "returned"
    /\ UNCHANGED <<now, san, mainVars, val>>

\* storage.save_assignments(x)
Save(x) == SaveUpTo(x, MaxHist)

\* compare_assignments(y) saving y as the new current list
Compare_saving(y) ==
    /\ pc = "idle"
    /\ \E r \in compare_assignments(get_assignments(file), y) :
         ret' = [op |-> "compare", arg |-> y, ok |-> TRUE,
                 hasChanges |-> r.hasChanges, changes |-> r.changes,
                 newlyAdded |-> r.newlyAdded, added_keys |-> r.added_keys,
                 removed_keys |-> r.removed_keys, common_keys |-> r.common_keys,
                 before |-> <<file>>, history |-> <<>>, writable |-> FALSE]
    /\ file' = IF read_storage(file).kind = "other" THEN file
               ELSE saved_data(file, y, now)
    /\ pc' = "returned"
    /\ UNCHANGED <<now, saved, san, mainVars, val>>

\* storage.compare_assignments(y)
Compare(y) ==
    /\ pc = "idle"
    /\ \E r \in compare_assignments(get_assignments(file), y) :
         ret' = [op |-> "compare", arg |-> y, ok |-> TRUE,
                 hasChanges |-> r.hasChanges, changes |-> r.changes,
                 newlyAdded |-> r.newlyAdded, added_keys |-> r.added_keys,
                 removed_keys |-> r.removed_keys, common_keys |-> r.common_keys,
                 before |-> <<file>>, history |-> <<>>, writable |-> FALSE]
    /\ pc' = "returned"
    /\ UNCHANGED <<file, now, saved, san, mainVars, val>>

\* the caller takes the result and goes on
Return ==
    /\ pc = "returned"
    /\ pc' = "idle"
    /\ ret' = NoRet
    /\ UNCHANGED <<file, now, saved, san, mainVars, val>>

\* the file is deleted, overwritten with text that is not JSON, or
\* overwritten with JSON of another shape
Damage(f) ==
    /\ pc = "idle"
    /\ file # f
    /\ file' = f
    /\ saved' = <<>>
    /\ UNCHANGED <<now, pc, ret, san, mainVars, val>>

Next ==
    \/ \E x \in StoredLists : Save(x)
    \/ \E y \in Lists : Compare(y)
    \/ Return
    \/ \E f \in {NoFile, CorruptFile, OtherJson} : Damage(f)

Spec == Init /\ [][Next]_vars

----------------------------------------------------------------------------
(* The storage API over several days                                       *)

HistoryLists == {<<>>, <<Base1>>, <<Base2>>}

\* storage.get_assignment_history()
History ==
    /\ pc = "idle"
    /\ ret' = [NoRet EXCEPT !.op = "history", !.ok = TRUE, !.before = <<file>>,
                            !.history = get_assignment_history(file, now)]
    /\ pc' = "returned"
    /\ UNCHANGED <<file, now, saved, san, mainVars, val>>

\* d days pass between two calls
Tick(d) ==
    /\ pc = "idle"
    /\ now + d <= MaxNow
    /\ now' = now + d
    /\ UNCHANGED <<file, pc, ret, saved, san, mainVars, val>>

NextHistory ==
    \/ \E x \in HistoryLists : SaveUpTo(x, MaxEntries)
    \/ \E y \in HistoryLists : Compare(y)
    \/ History
    \/ Return
    \/ \E d \in {3, 4} : Tick(d)

SpecHistory == Init /\ [][NextHistory]_vars

----------------------------------------------------------------------------
(* The storage API on records with missing, empty and extra fields         *)

\* the record without the field f
Without(r, f) == [k \in (DOMAIN r) \ {f} |-> r[k]]

\* Base1 as it is, without a field, with the field blank or 'N/A', with the
\* extra field location, and with bookkeeping fields
FieldRecords ==
    { Base1,
      Without(Base1, "comments"), [Base1 EXCEPT !.comments = NA],
      Without(Base1, "customer"), [Base1 EXCEPT !.customer = <<" ">>],
      Put(Base1, "location", <<"x">>), Put(Base1, "location", <<"Y">>),
      Put(Base1, "location", NA), Put(Base1, "location", <<" ">>),
      Put(Base1, "timestamp", <<"1">>), Put(Base1, "timestamp", <<"2">>),
      Put(Base1, "Updated_At", <<"1">>) }

FieldStoredRecords ==
    { Base1, Without(Base1, "comments"), Without(Base1, "customer"),
      Put(Base1, "location", <<"x">>), Put(Base1, "timestamp", <<"1">>),
      Base2 }

FieldStoredLists == ListsUpTo(FieldStoredRecords, MaxFieldRecs)

\* the lists compared: as long as the stored ones, or one of the records
\* next to Base2
FieldLists ==
    ListsUpTo(FieldRecords \cup {Base2}, MaxFieldRecs)
    \cup {<<r, Base2>> : r \in FieldRecords}
    \cup {<<Base2, r>> : r \in FieldRecords}

\* the file is as save_assignments(x) wrote it on day 0
FieldsInit ==
    /\ \E x \in FieldStoredLists :
          /\ file = saved_data(NoFile, x, 0)
          /\ saved = <<x>>
    /\ now = 0
    /\ pc = "idle"
    /\ ret = NoRet
    /\ san = NoSan
    /\ MainIdle
    /\ val = NoVal

NextFields ==
    \/ \E y \in FieldLists : Compare(y)
    \/ Return

SpecFields == FieldsInit /\ [][NextFields]_vars

----------------------------------------------------------------------------
(* sanitize_assignment applied to a scraped record, and to its own result  *)

\* what the texts of a scraped record are made of
TextUnits == {"D", "I", "T", "AM", " ", "x"}

RECURSIVE TextsUpTo(_)
TextsUpTo(n) ==
    IF n = 0 THEN {<<>>}
    ELSE LET shorter == TextsUpTo(n - 1)
         IN  shorter \cup {Append(t, u) : t \in {w \in shorter : Len(w) = n - 1},
                                          u \in TextUnits}

RawAssignments ==
    { [customer |-> <<"A", " ">>, language |-> <<" ", "B">>, header |-> <<"x">>,
       date_time |-> d, info |-> i, comments |-> c,
       service_type |-> <<" ", "Video", " ", "x">>] :
        d \in {<<>>, <<"None">>, <<"D", " ", "T">>},
        i \in TextsUpTo(MaxText),
        c \in {<<"-">>, <<"D", " ", "T", "AM">>} }

SanitizeInit ==
    /\ StorageInit
    /\ MainIdle
    /\ val = NoVal
    /\ \E a \in RawAssignments :
          san = [stage |-> "raw", raw |-> a, once |-> <<>>, twice |-> <<>>]

SanitizeOnce ==
    /\ san.stage = "raw"
    /\ san' = [san EXCEPT !.stage = "once", !.once = sanitize_assignment(san.raw)]
    /\ UNCHANGED <<storageVars, mainVars, val>>

SanitizeAgain ==
    /\ san.stage = "once"
    /\ san' = [san EXCEPT !.stage = "twice", !.twice = sanitize_assignment(san.once)]
    /\ UNCHANGED <<storageVars, mainVars, val>>

NextSanitize ==
    \/ SanitizeOnce
    \/ SanitizeAgain

SpecSanitize == SanitizeInit /\ [][NextSanitize]_vars

----------------------------------------------------------------------------
(* validate_assignment applied to a record                                 *)

\* marks a field the record does not have
Absent == <<"<absent>">>

\* the dict with the fields that are not Absent
ValidatedRecord(c, d, l, s, i, m) ==
    LET all == [customer |-> c, date_time |-> d, language |-> l,
                service_type |-> s, info |-> i, comments |-> m]
    IN  [key \in {k \in DOMAIN all : all[k] # Absent} |-> all[key]]

ValidatedRecords ==
    { ValidatedRecord(c, d, l, s, i, m) :
        c \in {Absent, NonStr, <<"A", " ", "b">>, <<"Test", " ", "x">>, NA},
        d \in {Absent, NonStr, <<"Dc", " ", "T", " ", "AM">>, <<"x">>, <<" ">>},
        l \in {Absent, NonStr, <<"S", "p", "a", "n", "i", "s", "h">>,
               <<"s", "p", "a", "n", "i", "c", "h">>, <<"x">>,
               <<"s", "p", "a", "n", "i", "s", "h">>, <<"s", "p", "a", "n", "i">>,
               <<"s", "p", "a", "n">>},
        s \in {Absent, NonStr, <<"Video">>, <<"x">>},
        i \in {Absent, NonStr, <<"x">>, <<"D", " ", "T", " ", "x">>,
               <<"x", "D", " ", "T", " ", " ", "AM", " ", "x">>},
        m \in {NonStr, <<"a">>, <<"I", " ", "T">>} }

ValidateInit ==
    /\ StorageInit
    /\ san = NoSan
    /\ MainIdle
    /\ \E a \in ValidatedRecords : val = [NoVal EXCEPT !.stage = "called", !.input = a]

\* AssignmentValidator.validate_assignment(val.input)
Validate ==
    /\ val.stage = "called"
    /\ LET r == validate_assignment(val.input)
       IN  val' = [val EXCEPT !.stage = "done", !.raised = r.raised,
                              !.errors = r.errors, !.after = r.after]
    /\ UNCHANGED <<storageVars, sanitizeVars, mainVars>>

NextValidate == Validate

SpecValidate == ValidateInit /\ [][NextValidate]_vars

----------------------------------------------------------------------------
(* Runs of main()                                                          *)

ScrapedRecord(c, l, s, i) ==
    [customer |-> c, date_time |-> <<"D", " ", "1", ":", "2">>, language |-> l,
     service_type |-> s, info |-> i, comments |-> <<"a">>]

\* what get_assignments(driver) may find in a row of the page
ScrapedRecords ==
    { ScrapedRecord(<<"A">>, <<"B">>, <<"a">>, <<"Location", ":", " ", "a", "\n", "b">>),
      ScrapedRecord(<<"A">>, <<"B">>, <<"b">>, <<"Location", ":", " ", "a", "\n", "b">>),
      ScrapedRecord(<<"b">>, <<"B">>, <<"a">>, <<>>),
      [ScrapedRecord(<<"b">>, <<"B">>, <<"a">>, <<>>)
          EXCEPT !.comments = <<"a", "\n", "b">>] }

ScrapedLists == ListsUpTo(ScrapedRecords, MaxRecs)

\* the reports of the scraped lists and what parse_assignments makes of
\* them, computed once
Reports == [x \in ScrapedLists |-> main_save_assignments(x)]
Parsed == [content \in {<<>>} \cup Range(Reports) |-> parse_assignments(content)]
ReportOf(x) == IF x \in DOMAIN Reports THEN Reports[x] ELSE main_save_assignments(x)
ParsedOf(content) ==
    IF content \in DOMAIN Parsed THEN Parsed[content] ELSE parse_assignments(content)

\* Previous_assignments.txt is absent or holds the report of an earlier list
MainInit ==
    /\ StorageInit
    /\ san = NoSan
    /\ previous_txt \in {<<>>} \cup {<<ReportOf(x)>> : x \in ScrapedLists}
    /\ assignments_txt = <<>>
    /\ run = NoRun
    /\ val = NoVal

\* main() with BRIDGE_USERNAME or BRIDGE_PASSWORD unset, a failed login or
\* a failed scrape: sys.exit(1) before any file is touched
MainFails ==
    /\ run' = [NoRun EXCEPT !.ran = TRUE, !.exit = 1]
    /\ UNCHANGED <<storageVars, sanitizeVars, previous_txt, assignments_txt, val>>

\* main() when get_assignments(driver) returns `assignments`; `writable`
\* tells whether assignments.txt can be written, and run.mail_up whether
\* the mail credentials are set and the SMTP server takes a message
Main(assignments, writable) ==
    LET written == IF assignments # <<>> /\ writable
                   THEN <<ReportOf(assignments)>>
                   ELSE assignments_txt
        previous_assignments_content ==
            IF previous_txt = <<>> THEN <<>> ELSE previous_txt[1]
        current_assignments_content ==
            IF written = <<>> THEN <<>> ELSE written[1]
        prev_assignments == ParsedOf(previous_assignments_content)
        curr_assignments == ParsedOf(current_assignments_content)
    IN  /\ assignments_txt' = written
        /\ IF assignments = <<>>
           THEN /\ run' = [NoRun EXCEPT !.ran = TRUE]
                /\ UNCHANGED previous_txt
           ELSE \E r \in main_compare_assignments(prev_assignments, curr_assignments) :
                  LET result == [NoRun EXCEPT !.ran = TRUE,
                                    !.assignments = assignments,
                                    !.has_changes = r.has_changes,
                                    !.changes = r.changes,
                                    !.new_keys = r.new_keys,
                                    !.removed_keys = r.removed_keys]
                  IN  IF r.has_changes
                      THEN \E mail_up \in BOOLEAN,
                              sent \in call_send_notification(<<assignments>>) :
                             /\ sent.raised \/ sent.value = mail_up
                             /\ run' = [result EXCEPT
                                           !.notified = TRUE,
                                           !.mail_up = mail_up,
                                           !.delivered = sent.value,
                                           !.exit = IF sent.raised THEN 1 ELSE 0]
                             /\ previous_txt' =
                                   IF sent.value
                                   THEN <<current_assignments_content>>
                                   ELSE previous_txt
                      ELSE /\ run' = result
                           /\ UNCHANGED previous_txt
        /\ UNCHANGED <<storageVars, sanitizeVars, val>>

NextMain ==
    \/ MainFails
    \/ \E assignments \in ScrapedLists, writable \in BOOLEAN :
          Main(assignments, writable)

SpecMain == MainInit /\ [][NextMain]_vars

----------------------------------------------------------------------------
(* Vocabulary of the properties                                            *)

\* compare_assignments has just returned; the file is as it was read
Compared == pc = "returned" /\ ret.op = "compare"

Stored == get_assignments(file)

\* the key under which the diff enters a record (tabulated for the records
\* of the model)
DiffKeys == [r \in Records |-> get_assignment_key(clean_assignment(r))]

DiffKey(r) ==
    IF r \in DOMAIN DiffKeys THEN DiffKeys[r]
    ELSE get_assignment_key(clean_assignment(r))

\* the two records have the same fields and agree outside the fields F
SameExcept(r1, r2, F) ==
    /\ DOMAIN r1 = DOMAIN r2
    /\ \A f \in (DOMAIN r1) \ F : r1[f] = r2[f]

\* the words of a text, in lower case
FoldedWords(s) == [i \in DOMAIN split(s) |-> lower(split(s)[i])]

\* r2 is r1 up to letter case and spacing of customer and service_type and
\* letter case of language
Recasing(r1, r2) ==
    /\ SameExcept(r1, r2, {"customer", "service_type", "language"})
    /\ FoldedWords(r1.customer) = FoldedWords(r2.customer)
    /\ FoldedWords(r1.service_type) = FoldedWords(r2.service_type)
    /\ lower(r1.language) = lower(r2.language)

HasLine(kind, key) ==
    \E i \in DOMAIN ret.changes :
        /\ ret.changes[i].kind = kind
        /\ ret.changes[i].customer = key[1]
        /\ ret.changes[i].language = key[3]
        /\ ret.changes[i].date_time = key[2]

----------------------------------------------------------------------------
(* Properties of compare_assignments and the snapshot (specification Spec) *)

\* C1: with r stored, comparing a single record that differs from r only in
\* the text of info (or of comments) reports no newly added assignment and
\* reports a modification of the existing one.
C1_TextChangeIsModification ==
    (Compared /\ Len(ret.arg) = 1) =>
        \A r \in Range(Stored), f \in {"info", "comments"} :
            (/\ SameExcept(r, ret.arg[1], {f})
             /\ split(r[f]) # split(ret.arg[1][f]))
            => /\ ret.newlyAdded = <<>>
               /\ HasLine("header", DiffKey(r))

\* C3: after a successful save_assignments(x), every compare_assignments(x)
\* made before the next save returns no change, no log line and no newly
\* added record.
C3_SaveThenCompareIsQuiet ==
    (Compared /\ saved = <<ret.arg>>) =>
        /\ ~ret.hasChanges
        /\ ret.changes = <<>>
        /\ ret.newlyAdded = <<>>

C3_Witness ==
    /\ Compared
    /\ saved = <<ret.arg>>
    /\ Len(ret.arg) = 2
    /\ ret.arg[1] # ret.arg[2]

\* C4: a record that differs from a stored one only in letter case or spacing
\* of customer and service_type and in letter case of language has the same
\* key as the stored one and is not newly added; when they are the only
\* records, nothing is reported at all.
C4_RecasingIsSameRecord ==
    Compared =>
        \A r1 \in Range(Stored), r2 \in Range(ret.arg) :
            Recasing(r1, r2) =>
                /\ DiffKey(r1) = DiffKey(r2)
                /\ r2 \notin Range(ret.newlyAdded)
                /\ (Len(Stored) = 1 /\ Len(ret.arg) = 1) =>
                        (~ret.hasChanges /\ ret.newlyAdded = <<>>)

C4_Witness ==
    /\ Compared
    /\ Stored = <<Base1>>
    /\ ret.arg = <<Recased>>
    /\ Recasing(Base1, Recased)
    /\ ~ret.hasChanges

\* C5: a single record that differs from the single stored record only in
\* letter case, in whatever fields, yields no newly added record.
C5_CaseVariantIsDuplicate ==
    (Compared /\ Len(Stored) = 1 /\ Len(ret.arg) = 1) =>
        ((/\ DOMAIN Stored[1] = DOMAIN ret.arg[1]
          /\ \A f \in DOMAIN Stored[1] : lower(Stored[1][f]) = lower(ret.arg[1][f]))
         => ret.newlyAdded = <<>>)

C9_InfoSpacingIsNoChange ==
    Compared =>
        \A r1 \in Range(Stored), r2 \in Range(ret.arg) :
            (/\ SameExcept(r1, r2, {"info"})
             /\ r1.info # r2.info
             /\ split(r1.info) = split(r2.info))
            => /\ DiffKey(r2) \notin ret.added_keys
               /\ DiffKey(r1) \notin ret.removed_keys
               /\ r2 \notin Range(ret.newlyAdded)
               /\ \A i \in DOMAIN ret.changes :
                    ~(ret.changes[i].kind = "field" /\ ret.changes[i].field = "info"
                      /\ ret.changes[i].old = r1.info /\ ret.changes[i].new = r2.info)

C9_Witness ==
    /\ Compared
    /\ Stored = <<Base1>>
    /\ ret.arg = <<[Base1 EXCEPT !.info = <<"a", " ", "\n", "b">>]>>
    /\ ~ret.hasChanges

----------------------------------------------------------------------------
(* Properties of sanitize_assignment (specification SpecSanitize)          *)

\* C10: sanitization is idempotent: sanitizing a record that is already
\* sanitized gives back the same record.
C10_SanitizeIsIdempotent ==
    san.stage = "twice" => san.twice = san.once

\* a blank value or a case variant of one of the empty indicators
MissingLike(value) ==
    strip(value) = <<>> \/ lower(strip(value)) \in empty_values

\* the field was missing-like in the raw record and nothing was put in its
\* place from another field
GotSentinel(key) ==
    /\ MissingLike(san.raw[key])
    /\ key = "date_time" => extracted_date(san.raw) = NA

\* C11: after sanitize_assignment every value is non-empty, and all fields
\* that were missing-like in the raw record hold one and the same sentinel.
C11_OneSentinelForAllFields ==
    san.stage = "once" =>
        /\ \A key \in DOMAIN san.once : san.once[key] # <<>>
        /\ \A k1, k2 \in DOMAIN san.once :
              (GotSentinel(k1) /\ GotSentinel(k2)) => san.once[k1] = san.once[k2]

\* the text is a date and time in one of the formats of lines 318-327
AcceptedDate(value) == standardize_date(value) = CanonicalDate

\* C12: a date_time that is in an accepted format comes out of
\* sanitize_assignment in the canonical MM/DD/YYYY hh:mm AM/PM form (in
\* either letter case of the meridiem).
C12_AcceptedDateIsCanonical ==
    (san.stage = "once" /\ AcceptedDate(strip(san.raw["date_time"]))) =>
        san.once["date_time"] \in {CanonicalDate, lower(CanonicalDate)}

----------------------------------------------------------------------------
(* Properties of main() (specification SpecMain)                           *)

\* C2: a run of main() that got assignments calls send_notification if and
\* only if the comparison found new assignments: a run whose differences
\* are only removed or modified assignments sends no notification.
C2_NotifiesIffNewlyAdded ==
    (run.ran /\ run.assignments # <<>>) =>
        (run.notified <=> run.new_keys # {})

\* C20: a run of main() that detects changes leaves the report it compared
\* as the new baseline, whether or not the notification was delivered, so
\* that a following run over the same assignments finds nothing changed.
C20_BaselineIsPersisted ==
    (run.ran /\ run.has_changes) => previous_txt = assignments_txt

----------------------------------------------------------------------------
(* Properties of validate_assignment (specification SpecValidate)          *)

\* validate_assignment has returned a list of errors
Validated == val.stage = "done" /\ ~val.raised

\* what each check other than the date check finds in a record, taken on
\* its own
OwnFindings(assignment) ==
    Range(required_errors(REQUIRED_FIELDS, assignment))
    \cup Range(validate_service_type(assignment).errors)
    \cup Range(empty_errors(REQUIRED_FIELDS, assignment))
    \cup Range(validate_language(assignment).errors)
    \cup Range(validate_customer(assignment).errors)

\* C13: validate_assignment evaluates every check: whatever the date check
\* finds, the findings of the other checks are all in the returned list.
C13_EveryCheckIsEvaluated ==
    Validated => \A e \in OwnFindings(val.input) : e \in Range(val.errors)

\* C14: validate_assignment leaves the record it is given as it was: the
\* same fields with the same values.
C14_InputIsNotMutated ==
    val.stage = "done" => val.after = val.input

\* C15: validate_assignment never raises, whatever fields the record has
\* or lacks and whether or not their values are texts.
C15_NeverRaises ==
    val.stage = "done" => ~val.raised

\* C16: a date_time text that none of the date formats parses gets an
\* invalid-date-format finding for the field date_time.
C16_UnparseableDateIsReported ==
    (/\ Validated
     /\ "date_time" \in DOMAIN val.input
     /\ IsStr(val.input["date_time"])
     /\ ~parses_date(val.input["date_time"]))
    => \E e \in Range(val.errors) :
          e.field = "date_time" /\ e.error = "Invalid date format"

----------------------------------------------------------------------------
(* Properties of the snapshot over several days (specification SpecHistory) *)

\* save_assignments has just returned True
SavedOk == pc = "returned" /\ ret.op = "save" /\ ret.ok

\* get_assignment_history has just returned
GotHistory == pc = "returned" /\ ret.op = "history"

\* the snapshot the last call found
Before == read_storage(ret.before[1])

\* the current list the last call found, stamped with its last_updated
PriorEntry ==
    [timestamp |-> Before.last_updated, assignments |-> Before.assignments]

\* the entry has a timestamp less than 7 days old
Young(entry) ==
    entry.timestamp # <<>> /\ now - entry.timestamp[1] < RetentionDays

\* C17 as stated: after a successful save over an earlier snapshot the
\* current list is the saved one, and the list that was current before is
\* in the history, stamped with the last_updated it had.
C17_PreviousSetIsInHistory ==
    (SavedOk /\ Before.last_updated # <<>>) =>
        /\ file.assignments = ret.arg
        /\ \E i \in DOMAIN file.history : file.history[i] = PriorEntry

\* C17 amended: after a successful save the current list is the saved one;
\* if the list that was current before was not empty and its last_updated
\* is less than 7 days old, it is the last entry of the history, stamped
\* with that last_updated.
C17_RecentSetIsInHistory ==
    SavedOk =>
        /\ file.assignments = ret.arg
        /\ (Before.assignments # <<>> /\ Young(PriorEntry)) =>
              /\ file.history # <<>>
              /\ file.history[Len(file.history)] = PriorEntry

C17_Witness ==
    /\ SavedOk
    /\ Before.assignments # <<>>
    /\ Young(PriorEntry)
    /\ Before.last_updated # <<now>>
    /\ Len(file.history) = 2

\* C18: after a successful save every history entry is less than 7 days
\* old and no entry less than 7 days old was dropped; the same holds of
\* the list get_assignment_history returns for the file it read.
C18_HistoryIsTheRecentEntries ==
    /\ SavedOk =>
          /\ \A i \in DOMAIN file.history : Young(file.history[i])
          /\ \A j \in DOMAIN Before.history :
                Young(Before.history[j]) =>
                    \E i \in DOMAIN file.history : file.history[i] = Before.history[j]
    /\ GotHistory =>
          /\ \A i \in DOMAIN ret.history : Young(ret.history[i])
          /\ \A j \in DOMAIN Before.history :
                Young(Before.history[j]) =>
                    \E i \in DOMAIN ret.history : ret.history[i] = Before.history[j]

C18_Witness ==
    /\ SavedOk
    /\ \E j \in DOMAIN Before.history : ~Young(Before.history[j])
    /\ \E j \in DOMAIN Before.history : Young(Before.history[j])
    /\ Len(file.history) = 2

\* C19: compare_assignments leaves the file as it found it: current list,
\* last_updated and history are the same after the call as before.
C19_CompareLeavesTheSnapshot ==
    Compared => ret.before = <<file>>

C19_Witness ==
    /\ Compared
    /\ ret.hasChanges
    /\ file.kind = "ok"
    /\ file.history # <<>>

----------------------------------------------------------------------------
(* Further properties of compare_assignments and save_assignments          *)
(* (specification Spec)                                                    *)

\* the keys of the stored records and of the compared records
StoredKeys == {DiffKey(r) : r \in Range(Stored)}
ComparedKeys == {DiffKey(r) : r \in Range(ret.arg)}

\* C21: hasChanges is true exactly when the change log is not empty; it is
\* true whenever newlyAdded is not empty and whenever the key of a stored
\* record is missing from the compared list.
C21_HasChangesIffLogged ==
    Compared =>
        /\ ret.hasChanges <=> ret.changes # <<>>
        /\ ret.newlyAdded # <<>> => ret.hasChanges
        /\ (StoredKeys \ ComparedKeys) # {} => ret.hasChanges
        /\ \A k \in StoredKeys \ ComparedKeys : HasLine("removed", k)

C21_Witness ==
    /\ Compared
    /\ ret.newlyAdded = <<>>
    /\ (StoredKeys \ ComparedKeys) # {}
    /\ ret.arg # <<>>
    /\ ret.hasChanges

\* save_assignments has returned and the file could be opened for writing
SavedWritable == pc = "returned" /\ ret.op = "save" /\ ret.writable

\* C28: whatever the file held (nothing, text that is not JSON, JSON of
\* another shape), save_assignments(records) on a writable file returns
\* True, and get_assignments() then returns `records`.
C28_SaveHealsAnySnapshot ==
    SavedWritable =>
        /\ ret.ok
        /\ get_assignments(file) = ret.arg

----------------------------------------------------------------------------
(* Properties of compare_assignments on records with missing, empty and    *)
(* extra fields (specification SpecFields)                                 *)

\* one stored record has been compared with one record
ComparedOneToOne == Compared /\ Len(Stored) = 1 /\ Len(ret.arg) = 1

\* r2 is r1 with the field f added, holding a blank text or 'N/A'
AddsSentinel(r1, r2, f) ==
    /\ f \notin DOMAIN r1
    /\ DOMAIN r2 = (DOMAIN r1) \cup {f}
    /\ \A k \in DOMAIN r1 : r2[k] = r1[k]
    /\ (strip(r2[f]) = <<>> \/ r2[f] = NA)

\* C24: a record that lacks a field and the same record carrying the field
\* blank or as 'N/A' are equal: with one stored, comparing the other reports
\* no changes and no newly added record, whichever field it is.
C24_AbsentEqualsSentinel ==
    ComparedOneToOne =>
        \A f \in {"customer", "comments", "location"} :
            (\/ AddsSentinel(Stored[1], ret.arg[1], f)
             \/ AddsSentinel(ret.arg[1], Stored[1], f))
            => (~ret.hasChanges /\ ret.newlyAdded = <<>>)

\* the last record of the list that has the key
LastWithKey(list, key) ==
    LET idx == {i \in DOMAIN list : DiffKey(list[i]) = key}
    IN  list[CHOOSE i \in idx : \A j \in idx : j <= i]

\* what the diff compares of field f of record r, and what it displays
Normalized(r, f) ==
    LET v == IF f \in DOMAIN r /\ strip(r[f]) # <<>> THEN r[f] ELSE NA
    IN  IF f \in {"info", "comments"} THEN join(split(v)) ELSE lower(join(split(v)))

Display(r, f) == IF f \in DOMAIN r THEN r[f] ELSE NA

\* the fields in which two records with the same key differ
Differing(cur, new) ==
    {f \in ((DOMAIN cur) \cup (DOMAIN new)) \ {"timestamp", "Updated_At"} :
        Normalized(cur, f) # Normalized(new, f) /\ Display(cur, f) # Display(new, f)}

\* the keys of stored records that the compared list has too, with a
\* difference to report
ModifiedKeys ==
    {k \in StoredKeys \cap ComparedKeys :
        Differing(LastWithKey(Stored, k), LastWithKey(ret.arg, k)) # {}}

Bookkeeping(k) == LowerKey(k) \in {"timestamp", "last_updated", "created_at", "updated_at"}

\* C30: two records that differ only in bookkeeping fields are the same
\* record: with one stored, comparing the other reports no changes and no
\* newly added record.
C30_BookkeepingFieldsAreIgnored ==
    ComparedOneToOne =>
        ((\A k \in (DOMAIN Stored[1]) \cup (DOMAIN ret.arg[1]) :
             \/ Bookkeeping(k)
             \/ /\ k \in DOMAIN Stored[1]
                /\ k \in DOMAIN ret.arg[1]
                /\ Stored[1][k] = ret.arg[1][k])
         => (~ret.hasChanges /\ ret.newlyAdded = <<>>))

C30_Witness ==
    /\ ComparedOneToOne
    /\ Stored[1] = Put(Base1, "timestamp", <<"1">>)
    /\ ret.arg[1] \in {Put(Base1, "timestamp", <<"2">>), Put(Base1, "Updated_At", <<"1">>)}
    /\ ~ret.hasChanges

----------------------------------------------------------------------------
(* Further properties of the runs of main() (specification SpecMain)       *)

\* main() has written the report of the scraped assignments and compared
\* it with the baseline, which it has left as it was
RanCompare ==
    /\ run.ran
    /\ run.assignments # <<>>
    /\ assignments_txt = <<ReportOf(run.assignments)>>
    /\ ~run.delivered

\* the records of the baseline and of the current report
PrevParsed == IF previous_txt = <<>> THEN <<>> ELSE ParsedOf(previous_txt[1])
CurrParsed == ParsedOf(assignments_txt[1])

\* the last record of the list that has the key (customer, date_time,
\* language)
LastWithMainKey(list, key) ==
    LET idx == {i \in DOMAIN list : main_get_assignment_key(list[i]) = key}
    IN  list[CHOOSE i \in idx : \A j \in idx : j <= i]

\* C23: when several records of one side share an identity key, the last
\* one is the one that is used: for a key that both reports have, every
\* important field in which the last previous and the last current record
\* of the key differ has its change line in the log.
C23_LastRecordOfAKeyIsUsed ==
    RanCompare =>
        \A key \in {main_get_assignment_key(a) : a \in Range(PrevParsed)}
                   \cap {main_get_assignment_key(a) : a \in Range(CurrParsed)} :
            LET prev == LastWithMainKey(PrevParsed, key)
                curr == LastWithMainKey(CurrParsed, key)
            IN  \A f \in Range(important_fields) :
                   Get(prev, f, <<>>) # Get(curr, f, <<>>) =>
                      \E i \in DOMAIN run.changes :
                         /\ run.changes[i].field = f
                         /\ run.changes[i].old = Get(prev, f, <<>>)
                         /\ run.changes[i].new = Get(curr, f, <<>>)

----------------------------------------------------------------------------
(* Further properties of validate_assignment (specification SpecValidate)  *)

\* the text b can be made from the text a with at most d insertions,
\* deletions and substitutions of a character
RECURSIVE WithinDistance(_, _, _)
WithinDistance(a, b, d) ==
    IF a = <<>> THEN Len(b) <= d
    ELSE IF b = <<>> THEN Len(a) <= d
    ELSE IF Head(a) = Head(b) THEN WithinDistance(Tail(a), Tail(b), d)
    ELSE /\ d > 0
         /\ \/ WithinDistance(Tail(a), b, d - 1)
            \/ WithinDistance(a, Tail(b), d - 1)
            \/ WithinDistance(Tail(a), Tail(b), d - 1)

\* the known languages within distance 2 of the text, letter case aside
NearLanguages(text) ==
    {l \in COMMON_LANGUAGES : WithinDistance(lower(text), lower(l), 2)}

\* the possible-typo findings of the returned list
TypoFindings ==
    {i \in DOMAIN val.errors :
        val.errors[i].field = "language" /\ val.errors[i].error = "Possible typo"}

\* C26: validate_assignment returns a possible-typo finding for language
\* exactly when the value is not one of the known languages and some known
\* language is within distance 2 of it, letter case aside; the finding
\* names exactly those languages.
C26_TypoIffNearMiss ==
    (Validated /\ "language" \in DOMAIN val.input /\ IsStr(val.input["language"])) =>
        LET language == val.input["language"]
        IN  IF language \notin COMMON_LANGUAGES /\ NearLanguages(language) # {}
            THEN /\ Cardinality(TypoFindings) = 1
                 /\ \A i \in TypoFindings :
                       /\ val.errors[i].value = language
                       /\ val.errors[i].matches = NearLanguages(language)
            ELSE TypoFindings = {}

----------------------------------------------------------------------------
(* The scan of info in the legacy report (specification SpecMain)          *)

\* the text `part` occurs in the text `whole`
IsPartOf(part, whole) ==
    \E i \in 1..(Len(whole) - Len(part) + 1) :
        SubSeq(whole, i, i + Len(part) - 1) = part

\* the number of the first label a line contains, 0 if it contains none
LabelOf(line) ==
    LET hits == {n \in DOMAIN info_labels : HasLabel(line, info_labels[n][1])}
    IN  IF hits = {} THEN 0 ELSE CHOOSE n \in hits : \A m \in hits : n <= m

\* the label whose value line j belongs to: the label of the nearest line
\* at or before j that contains one, 0 if there is none
OwnerOf(lines, j) ==
    LET labelled == {i \in 1..j : LabelOf(strip(lines[i])) # 0}
    IN  IF labelled = {} THEN 0
        ELSE LabelOf(strip(lines[CHOOSE i \in labelled : \A h \in labelled : h <= i]))

\* what line j contributes to the value of its label: the text after the
\* label for the line that has the label, the line itself otherwise
Contribution(lines, j) ==
    LET line == strip(lines[j])
    IN  IF LabelOf(line) # 0 THEN strip(AfterColon(line)) ELSE line

\* C27: in the report of a run, the value of each label of info holds the
\* text after the label and every following line up to the next label or
\* the end of info.
C27_InfoIsScannedWithContinuation ==
    RanCompare =>
        \A i \in DOMAIN run.assignments :
            LET lines == split_lines(run.assignments[i].info)
                formatted == format_assignment(run.assignments[i])
            IN  \A j \in DOMAIN lines :
                   OwnerOf(lines, j) # 0 =>
                      /\ info_labels[OwnerOf(lines, j)][2] \in DOMAIN formatted
                      /\ IsPartOf(Contribution(lines, j),
                                  formatted[info_labels[OwnerOf(lines, j)][2]])

----------------------------------------------------------------------------
(* The legacy report read back (specification SpecMain)                    *)

\* the fields save_assignments writes for a record: those of `formatted`
\* that are not empty
WrittenFields(assignment) ==
    {k \in DOMAIN format_assignment(assignment) :
        format_assignment(assignment)[k] # <<>>}

\* C22: parse_assignments applied to the report save_assignments wrote
\* returns the records written: as many, in the same order, each with the
\* keys of its non-empty fields and their values.
C22_ReportRoundTrip ==
    RanCompare =>
        /\ Len(CurrParsed) = Len(run.assignments)
        /\ \A i \in DOMAIN run.assignments :
              i <= Len(CurrParsed) =>
                 /\ DOMAIN CurrParsed[i] = {<<k>> : k \in WrittenFields(run.assignments[i])}
                 /\ \A k \in WrittenFields(run.assignments[i]) :
                       <<k>> \in DOMAIN CurrParsed[i] =>
                          CurrParsed[i][<<k>>] = format_assignment(run.assignments[i])[k]

----------------------------------------------------------------------------
(* The baseline after a notification (specification SpecMain)              *)

\* C29: when a run of main() detects changes and the mail server takes the
\* message, the notification is delivered and Previous_assignments.txt
\* holds the current report when the run ends, so that a following run over
\* the same assignments finds no changes.
C29_DeliveredRunUpdatesBaseline ==
    (run.ran /\ run.has_changes /\ run.mail_up) =>
        /\ run.delivered
        /\ run.exit = 0
        /\ previous_txt = assignments_txt

====
